---- MODULE Spec2Model ----
(***************************************************************************)
(* Post lifecycle of the autopost Cloud Functions (functions/main.py) and  *)
(* the publication pipeline it calls (functions/xfree_poster.py).          *)
(*                                                                         *)
(* The Firestore collection 'posts' is the shared state.  The scheduled    *)
(* function check_scheduled_posts and the HTTP functions create_post and   *)
(* retry_failed_post are independent executions; they interleave at the    *)
(* granularity of one Firestore read or write.  One call of                *)
(* publish_to_xfree touches no post document: it is one step whose result  *)
(* is computed from the behaviour of the outside world during that call.   *)
(***************************************************************************)
EXTENDS Integers, Sequences, FiniteSets, TLC

\* ------------------------------------------------------------------ bounds
MaxPosts == 2        \* documents the posts collection can hold
MaxTime  == 1        \* the clock runs from 0 to MaxTime
MaxRuns  == 2        \* scheduler invocations that can overlap

\* ------------------------------------------------------- program constants
BatchLimit == 10     \* .limit(10) of the due-posts query

PostIds  == 1..MaxPosts
Runs     == 1..MaxRuns
Times    == 0..MaxTime

Null   == "None"                  \* None in the error field
NoTime == -1                      \* None in a timestamp field
Absent == -2                      \* a timestamp field the document does not have
NoPost == [status |-> "missing"]  \* a document that does not exist

Accounts   == {"acc"}              \* documents of the accounts collection
AccountIds == {"acc", "ghost"}     \* references a post may carry

RequiredFields == {"account_id", "title", "description", "video_url", "scheduled_time"}

\* ------------------------------------------------------- xfree_poster.py
\* One call of publish_to_xfree talks to Firestore, Cloud Storage, the local
\* file system and a Chromium browser.  What those do during the call is the
\* call's environment: which external operation fails (and whether with a
\* Playwright timeout or another exception), what URL the page shows after
\* the login submit, and how many elements the metadata selectors match.

DownloadOps == <<"storage.bucket", "tmpfile.create", "blob.download">>

BrowserOps == <<"playwright.start", "chromium.launch", "browser.new_context", "context.new_page">>

LoginOps == <<"login.goto", "login.sleep", "login.wait_for_selector", "login.fill_email",
              "login.fill_password", "login.click", "login.wait_for_load_state",
              "login.settle", "login.check_url">>

UploadOps == <<"upload.goto", "upload.sleep", "upload.wait_for_selector",
               "upload.set_input_files", "upload.settle">>

SubmitOps == <<"processing.sleep", "submit.click", "submit.wait_for_load_state", "submit.settle">>

\* operations of the page that can exceed their timeout
PageOps == {"login.goto", "login.wait_for_selector", "login.fill_email", "login.fill_password",
            "login.click", "login.wait_for_load_state",
            "upload.goto", "upload.wait_for_selector", "upload.set_input_files",
            "fill.title", "fill.description", "submit.click", "submit.wait_for_load_state"}

\* operations that can raise something else
OtherOps == {"storage.bucket", "tmpfile.create", "blob.download", "playwright.start",
             "chromium.launch", "browser.new_context", "context.new_page", "browser.close"}

NoFault == "none"

\* names_op: whether the text of the exception the library raises names the
\* operation that failed; the library decides, the code only adds a prefix.
DefaultEnv == [fault |-> NoFault, kind |-> "error", url_login |-> FALSE,
               title_count |-> 1, desc_count |-> 1, close_fails |-> FALSE,
               names_op |-> TRUE]

Envs ==
    \* everything works; the page decides the login outcome and the metadata fields
    { [DefaultEnv EXCEPT !.url_login = u, !.title_count = t, !.desc_count = d, !.close_fails = c] :
          u \in BOOLEAN, t \in 0..1, d \in 0..1, c \in BOOLEAN }
    \* one page operation fails, with a timeout or with another error
    \cup { [DefaultEnv EXCEPT !.fault = o, !.kind = k, !.close_fails = c, !.names_op = n] :
          o \in PageOps, k \in {"timeout", "error"}, c \in BOOLEAN, n \in BOOLEAN }
    \* one operation outside the page fails
    \cup { [DefaultEnv EXCEPT !.fault = o] : o \in OtherOps }

Range(s) == {s[i] : i \in 1..Len(s)}

\* str(e) of the exception an external operation raised
Cause(op, kind) ==
    IF kind = "timeout" THEN "Timeout exceeded: " \o op ELSE "Error: " \o op

\* str(e) of a library exception whose text does not name the operation
GenericCause(kind) ==
    IF kind = "timeout" THEN "Timeout exceeded" ELSE "Target closed"

Fails(op, env) == op = env.fault \/ (op = "browser.close" /\ env.close_fails)

\* variant: the operations after the failing one are executed as well
RunOpsContinuesAfterFailure(ops, env) ==
    LET bad == {i \in 1..Len(ops) : Fails(ops[i], env)}
        k   == IF bad = {} THEN 0 ELSE CHOOSE i \in bad : \A j \in bad : i <= j
    IN  IF k = 0
        THEN [trace |-> ops, raised |-> "none", cause |-> ""]
        ELSE LET kind == IF ops[k] \in PageOps THEN env.kind ELSE "error"
             IN  [trace |-> ops,
                  raised |-> kind,
                  cause |-> IF env.names_op THEN Cause(ops[k], kind) ELSE GenericCause(kind)]

\* Run external operations in order; the first one that fails raises and the
\* rest are not executed.
RunOps(ops, env) ==
    LET bad == {i \in 1..Len(ops) : Fails(ops[i], env)}
        k   == IF bad = {} THEN 0 ELSE CHOOSE i \in bad : \A j \in bad : i <= j
    IN  IF k = 0
        THEN [trace |-> ops, raised |-> "none", cause |-> ""]
        ELSE LET kind == IF ops[k] \in PageOps THEN env.kind ELSE "error"
             IN  [trace |-> SubSeq(ops, 1, k),
                  raised |-> kind,
                  cause |-> IF env.names_op THEN Cause(ops[k], kind) ELSE GenericCause(kind)]

\* download_video_from_storage: NamedTemporaryFile(delete=False) creates the
\* file, then the blob is downloaded into it; nothing removes the file when
\* the download raises.
download_video_from_storage(env) ==
    LET r == RunOps(DownloadOps, env)
        created == "tmpfile.create" \in Range(r.trace) /\ ~Fails("tmpfile.create", env)
    IN  [trace |-> r.trace,
         exc |-> IF r.raised = "none" THEN Null ELSE r.cause,
         tmp_created |-> created]

\* variant: page.url is not looked at after the submit
login_to_xfreeIgnoresUrl(env) ==
    LET r == RunOps(LoginOps, env)
    IN  [trace |-> r.trace,
         exc |-> IF r.raised = "timeout" THEN "Login timeout: " \o r.cause
                 ELSE IF r.raised = "error" THEN "Login error: " \o r.cause
                 ELSE Null]

\* login_to_xfree: the page operations, then the check of page.url; a
\* Playwright timeout and any other exception are re-raised with a prefix.
login_to_xfree(env) ==
    LET r == RunOps(LoginOps, env)
    IN  [trace |-> r.trace,
         exc |-> IF r.raised = "timeout" THEN "Login timeout: " \o r.cause
                 ELSE IF r.raised = "error" THEN "Login error: " \o r.cause
                 ELSE IF env.url_login THEN "Login error: Login failed - still on login page"
                 ELSE Null]

\* variant: both metadata fields are filled without looking for their elements
publish_videoFillsUnconditionally(env) ==
    LET missing == env.title_count = 0 \/ env.desc_count = 0
        r == RunOps(UploadOps \o <<"fill.title", "fill.description">> \o SubmitOps, env)
    IN  IF r.raised = "none" /\ missing
        THEN [trace |-> UploadOps \o <<"fill.title">>,
              exc |-> "Publish timeout: " \o GenericCause("timeout")]
        ELSE [trace |-> r.trace,
              exc |-> IF r.raised = "timeout" THEN "Publish timeout: " \o r.cause
                      ELSE IF r.raised = "error" THEN "Publish error: " \o r.cause
                      ELSE Null]

\* publish_video: upload, metadata fill (a field is filled only when its
\* selector matches an element), wait, submit.
publish_video(env) ==
    LET fill == (IF env.title_count > 0 THEN <<"fill.title">> ELSE <<>>)
                \o (IF env.desc_count > 0 THEN <<"fill.description">> ELSE <<>>)
        r == RunOps(UploadOps \o fill \o SubmitOps, env)
    IN  [trace |-> r.trace,
         exc |-> IF r.raised = "timeout" THEN "Publish timeout: " \o r.cause
                 ELSE IF r.raised = "error" THEN "Publish error: " \o r.cause
                 ELSE Null]

\* variant: the Playwright driver is started without `with` and never stopped
BrowserSessionNeverStopped(env) ==
    LET b == RunOps(BrowserOps, env)
        launched == "chromium.launch" \in Range(b.trace) /\ ~Fails("chromium.launch", env)
    IN  IF b.raised # "none"
        THEN [trace |-> b.trace, exc |-> b.cause,
              launched |-> launched, closed |-> FALSE, stopped |-> FALSE]
        ELSE LET l == login_to_xfree(env)
                 v == IF l.exc = Null THEN publish_video(env) ELSE [trace |-> <<>>, exc |-> l.exc]
                 c == RunOps(<<"browser.close">>, env)
             IN  [trace |-> b.trace \o l.trace \o v.trace \o c.trace,
                  exc |-> IF c.raised # "none" THEN c.cause ELSE v.exc,
                  launched |-> TRUE, closed |-> c.raised = "none", stopped |-> FALSE]

\* The `with sync_playwright() as p:` statement of publish_to_xfree. closed:
\* browser.close() returned; stopped: the `with` was left, which stops the
\* Playwright driver and with it every browser the driver launched.
BrowserSession(env) ==
    LET b == RunOps(BrowserOps, env)
        launched == "chromium.launch" \in Range(b.trace) /\ ~Fails("chromium.launch", env)
        started == ~Fails("playwright.start", env)
        stop == IF started THEN <<"playwright.stop">> ELSE <<>>
    IN  IF b.raised # "none"
        THEN \* raised before the inner try: browser.close() is not called
             [trace |-> b.trace \o stop, exc |-> b.cause,
              launched |-> launched, closed |-> FALSE, stopped |-> started]
        ELSE LET l == login_to_xfree(env)
                 v == IF l.exc = Null THEN publish_video(env) ELSE [trace |-> <<>>, exc |-> l.exc]
                 c == RunOps(<<"browser.close">>, env)
             IN  [trace |-> b.trace \o l.trace \o v.trace \o c.trace \o stop,
                  \* an exception of browser.close() in the finally replaces the pending one
                  exc |-> IF c.raised # "none" THEN c.cause ELSE v.exc,
                  launched |-> TRUE, closed |-> c.raised = "none", stopped |-> TRUE]

\* variant: the video is downloaded before the account is looked up
publish_to_xfreeDownloadsFirst(post_data, env) ==
    LET d == download_video_from_storage(env)
    IN  IF d.exc # Null
        THEN [trace |-> d.trace, exc |-> d.exc,
              tmp_created |-> d.tmp_created, tmp_exists |-> d.tmp_created,
              launched |-> FALSE, closed |-> FALSE, stopped |-> FALSE]
        ELSE IF post_data.account_id \notin Accounts
        THEN [trace |-> d.trace \o <<"accounts.get">>,
              exc |-> "Account " \o post_data.account_id \o " not found",
              tmp_created |-> TRUE, tmp_exists |-> TRUE,
              launched |-> FALSE, closed |-> FALSE, stopped |-> FALSE]
        ELSE LET s == BrowserSession(env)
             IN  [trace |-> d.trace \o <<"accounts.get">> \o s.trace \o <<"os.unlink">>,
                  exc |-> s.exc,
                  tmp_created |-> TRUE, tmp_exists |-> FALSE,
                  launched |-> s.launched, closed |-> s.closed, stopped |-> s.stopped]

\* publish_to_xfree(post_id, post_data, db) in environment env
publish_to_xfree(post_data, env) ==
    IF post_data.account_id \notin Accounts
    THEN [trace |-> <<"accounts.get">>,
          exc |-> "Account " \o post_data.account_id \o " not found",
          tmp_created |-> FALSE, tmp_exists |-> FALSE,
          launched |-> FALSE, closed |-> FALSE, stopped |-> FALSE]
    ELSE LET d == download_video_from_storage(env)
         IN  IF d.exc # Null
             THEN \* raised before the try: the finally that unlinks is not entered
                  [trace |-> <<"accounts.get">> \o d.trace, exc |-> d.exc,
                   tmp_created |-> d.tmp_created, tmp_exists |-> d.tmp_created,
                   launched |-> FALSE, closed |-> FALSE, stopped |-> FALSE]
             ELSE LET s == BrowserSession(env)
                  IN  [trace |-> <<"accounts.get">> \o d.trace \o s.trace \o <<"os.unlink">>,
                       exc |-> s.exc,
                       tmp_created |-> TRUE, tmp_exists |-> FALSE,
                       launched |-> s.launched, closed |-> s.closed, stopped |-> s.stopped]

VARIABLES
    posts,      \* posts collection: id -> document or NoPost
    now,        \* the clock read by datetime.utcnow()
    pc,         \* position of each scheduler invocation
    batch,      \* documents streamed by the invocation's query
    count,      \* the loop counter of check_scheduled_posts
    attempt,    \* result of the publish_to_xfree call in progress
    writer,     \* per post: the operation that last wrote its status
    response    \* the last HTTP response of create_post / retry_failed_post

vars == <<posts, now, pc, batch, count, attempt, writer, response>>

NoAttempt  == [state |-> "none"]
NoResponse == [op |-> "none", code |-> 0]

Init ==
    /\ posts = [id \in PostIds |-> NoPost]
    /\ now = 0
    /\ pc = [r \in Runs |-> "idle"]
    /\ batch = [r \in Runs |-> <<>>]
    /\ count = [r \in Runs |-> 0]
    /\ attempt = [r \in Runs |-> NoAttempt]
    /\ writer = [id \in PostIds |-> "none"]
    /\ response = NoResponse

\* --------------------------------------------------------------- main.py
IsSet(v) == v # NoTime /\ v # Absent

\* the document ids of the posts collection
DocIds == DOMAIN posts

Exists(id) == posts[id] # NoPost

\* ---- create_post
\* req.get_json(): the required fields the body carries, the account it names
\* and the text of scheduled_time, written <<t, suffix>> for the instant t
\* followed by a timezone suffix. NullBody is the request whose JSON is null:
\* get_json() returns None.
TimeTexts == {<<t, z>> : t \in Times, z \in {"", "Z", "?"}}

\* created_at is written once and never read by the lifecycle; it is left out
\* of the modelled document.
ObjectBodies ==
    [present : {RequiredFields} \cup {RequiredFields \ {f} : f \in RequiredFields},
     account_id : AccountIds,
     scheduled_time : TimeTexts,
     is_object : {TRUE}]

NullBody == [present |-> {}, account_id |-> "acc", scheduled_time |-> <<0, "">>,
             is_object |-> FALSE]

Bodies == ObjectBodies \cup {NullBody}

\* data['scheduled_time'].replace('Z', '+00:00')
ReplaceZ(text) == IF text[2] = "Z" THEN <<text[1], "+00:00">> ELSE text

\* datetime.fromisoformat: the instant, or ValueError
fromisoformat(text) ==
    IF text[2] \in {"", "+00:00"} THEN [ok |-> TRUE, value |-> text[1]]
    ELSE [ok |-> FALSE, value |-> NoTime]

\* db.collection('posts').document(): an id no document has yet
FreeIds == {id \in DocIds : ~Exists(id)}
NewId == CHOOSE id \in FreeIds : \A other \in FreeIds : id <= other

NewPost(data, t) ==
    [account_id |-> data.account_id, title |-> "title", description |-> "description",
     video_url |-> "gs://bucket/video.mp4", scheduled_time |-> t, status |-> "pending",
     platform |-> "xfree", published_at |-> NoTime, error |-> Null,
     processing_started_at |-> Absent, failed_at |-> Absent]

create_post(data) ==
    LET parsed == fromisoformat(ReplaceZ(data.scheduled_time))
    IN  /\ IF ~data.is_object
           THEN \* `field in None`: TypeError, caught by `except Exception`
                /\ response' = [op |-> "create_post", code |-> 500]
                /\ UNCHANGED <<posts, writer>>
           ELSE IF data.present # RequiredFields
           THEN /\ response' = [op |-> "create_post", code |-> 400]
                /\ UNCHANGED <<posts, writer>>
           ELSE IF ~parsed.ok
           THEN \* ValueError, caught by `except Exception`
                /\ response' = [op |-> "create_post", code |-> 500]
                /\ UNCHANGED <<posts, writer>>
           ELSE /\ FreeIds # {}
                /\ posts' = [posts EXCEPT ![NewId] = NewPost(data, parsed.value)]
                /\ writer' = [writer EXCEPT ![NewId] = "create"]
                /\ response' = [op |-> "create_post", code |-> 201]
        /\ UNCHANGED <<now, pc, batch, count, attempt>>

\* ---- retry_failed_post
\* variant: the update leaves the stored error in place
RetryUpdateKeepsError(doc) ==
    [doc EXCEPT !.status = "pending", !.scheduled_time = now]

RetryUpdate(doc) ==
    [doc EXCEPT !.status = "pending", !.error = Null, !.scheduled_time = now]

\* The JSON body: with or without the key post_id.
RetryBodies == [present : {{}, {"post_id"}}, post_id : PostIds]

\* variant: no existence check, and a write that creates the document
retry_failed_post_upsert(data) ==
    /\ posts' = [posts EXCEPT ![data.post_id] =
                    IF Exists(data.post_id) THEN RetryUpdate(@)
                    ELSE RetryUpdate(NewPost([account_id |-> "acc"], now))]
    /\ writer' = [writer EXCEPT ![data.post_id] = "retry"]
    /\ response' = [op |-> "retry_failed_post", code |-> 200]
    /\ UNCHANGED <<now, pc, batch, count, attempt>>

retry_failed_post(data) ==
    /\ IF "post_id" \notin data.present
       THEN /\ response' = [op |-> "retry_failed_post", code |-> 400]
            /\ UNCHANGED <<posts, writer>>
       ELSE IF ~Exists(data.post_id)
       THEN /\ response' = [op |-> "retry_failed_post", code |-> 404]
            /\ UNCHANGED <<posts, writer>>
       ELSE /\ posts' = [posts EXCEPT ![data.post_id] = RetryUpdate(@)]
            /\ writer' = [writer EXCEPT ![data.post_id] = "retry"]
            /\ response' = [op |-> "retry_failed_post", code |-> 200]
    /\ UNCHANGED <<now, pc, batch, count, attempt>>

\* ---- check_scheduled_posts
\* variant: the range filter is strict
DueStrictlyBefore(id, t) ==
    /\ Exists(id)
    /\ posts[id].status = "pending"
    /\ posts[id].scheduled_time < t

Due(id, t) ==
    /\ Exists(id)
    /\ posts[id].status = "pending"
    /\ posts[id].scheduled_time <= t

\* The range filter on scheduled_time orders the result by scheduled_time,
\* then by document id.
Before(a, b) ==
    \/ posts[a].scheduled_time < posts[b].scheduled_time
    \/ posts[a].scheduled_time = posts[b].scheduled_time /\ a <= b

RECURSIVE Ordered(_)
Ordered(ids) ==
    IF ids = {} THEN <<>>
    ELSE LET first == CHOOSE a \in ids : \A b \in ids : Before(a, b)
         IN  <<first>> \o Ordered(ids \ {first})

\* variant: the query has no limit
LimitIgnored(seq, n) == seq

Limit(seq, n) == IF Len(seq) <= n THEN seq ELSE SubSeq(seq, 1, n)

\* where('status','==','pending').where('scheduled_time','<=',now).limit(10)
DueBatch(t) == Limit(Ordered({id \in DocIds : Due(id, t)}), BatchLimit)

\* lines 29-37: a new invocation reads the clock and runs the query; with no
\* due post the loop body never runs and the invocation returns
check_scheduled_posts_query(r) ==
    /\ pc[r] = "idle"
    /\ batch' = [batch EXCEPT ![r] = DueBatch(now)]
    /\ count' = [count EXCEPT ![r] = 0]
    /\ pc' = [pc EXCEPT ![r] = IF DueBatch(now) = <<>> THEN "idle" ELSE "claim"]
    /\ UNCHANGED <<posts, now, attempt, writer, response>>

\* variant: the claim stamps the start but does not write the status
ClaimUpdateKeepsStatus(doc) ==
    [doc EXCEPT !.processing_started_at = now]

ClaimUpdate(doc) ==
    [doc EXCEPT !.status = "processing", !.processing_started_at = now]

\* lines 40-49: next document of the stream, unconditional update to processing
check_scheduled_posts_claim(r) ==
    /\ pc[r] = "claim"
    /\ LET id == batch[r][count[r] + 1]
       IN  /\ posts' = [posts EXCEPT ![id] = ClaimUpdate(@)]
           /\ writer' = [writer EXCEPT ![id] = "claim"]
    /\ count' = [count EXCEPT ![r] = @ + 1]
    /\ pc' = [pc EXCEPT ![r] = "publishing"]
    /\ UNCHANGED <<now, batch, attempt, response>>

Current(r) == batch[r][count[r]]

\* lines 53-54: the call of publish_to_xfree returns or raises; the attempt
\* keeps the environment it met next to its outcome (an attempt that stops at
\* the account lookup has met none of it)
check_scheduled_posts_publish(r, env) ==
    /\ pc[r] = "publishing"
    /\ attempt' = [attempt EXCEPT ![r] =
                      [state |-> "exited",
                       env |-> IF posts[Current(r)].account_id \in Accounts
                               THEN env ELSE DefaultEnv]
                          @@ publish_to_xfree(posts[Current(r)], env)]
    /\ pc' = [pc EXCEPT ![r] = "resolve"]
    /\ UNCHANGED <<posts, now, batch, count, writer, response>>

PublishedUpdate(doc) ==
    [doc EXCEPT !.status = "published", !.published_at = now, !.error = Null]

\* str(e) of the caught exception
FailedUpdate(doc, e) ==
    [doc EXCEPT !.status = "failed", !.error = e, !.failed_at = now]

\* variant: the exception is swallowed and the post is stored as published
ResolutionIgnoresException(doc, out) == PublishedUpdate(doc)

Resolution(doc, out) ==
    IF out.exc = Null THEN PublishedUpdate(doc) ELSE FailedUpdate(doc, out.exc)

\* variant: an exception of the pipeline ends the loop
AfterResolveAbortOnFailure(r, out) ==
    IF out.exc = Null /\ count[r] < Len(batch[r]) THEN "claim" ELSE "return"

\* Where the loop goes after the post was resolved, whatever the outcome:
\* to the next document of the stream, or out of the loop.
AfterResolve(r, out) == IF count[r] < Len(batch[r]) THEN "claim" ELSE "return"

\* lines 56-72: store the outcome, then go on with the next document; after
\* the last one the invocation logs the count and returns (lines 74-77)
check_scheduled_posts_resolve(r) ==
    /\ pc[r] = "resolve"
    /\ posts' = [posts EXCEPT ![Current(r)] = Resolution(@, attempt[r])]
    /\ writer' = [writer EXCEPT ![Current(r)] = "resolve"]
    /\ attempt' = [attempt EXCEPT ![r] = NoAttempt]
    /\ IF AfterResolve(r, attempt[r]) = "claim"
       THEN /\ pc' = [pc EXCEPT ![r] = "claim"]
            /\ UNCHANGED <<batch, count>>
       ELSE /\ pc' = [pc EXCEPT ![r] = "idle"]
            /\ batch' = [batch EXCEPT ![r] = <<>>]
            /\ count' = [count EXCEPT ![r] = 0]
    /\ UNCHANGED <<now, response>>

\* time passes
Tick ==
    /\ now < MaxTime
    /\ now' = now + 1
    /\ UNCHANGED <<posts, pc, batch, count, attempt, writer, response>>

\* Inputs of the lifecycle specification, which interleaves the handlers and
\* overlapping scheduler invocations: an attempt either succeeds or has its
\* login rejected, and the requests are well-formed.
LifecycleEnvs ==
    {DefaultEnv, [DefaultEnv EXCEPT !.url_login = TRUE]}

LifecycleBodies ==
    {d \in Bodies : d.present = RequiredFields /\ d.account_id \in Accounts
                    /\ d.scheduled_time[2] = ""}

LifecycleRetryBodies == {d \in RetryBodies : "post_id" \in d.present}

Next ==
    \/ Tick
    \/ \E data \in LifecycleBodies : create_post(data)
    \/ \E data \in LifecycleRetryBodies : retry_failed_post(data)
    \/ \E r \in Runs : check_scheduled_posts_query(r)
    \/ \E r \in Runs : check_scheduled_posts_claim(r)
    \/ \E r \in Runs, env \in LifecycleEnvs : check_scheduled_posts_publish(r, env)
    \/ \E r \in Runs : check_scheduled_posts_resolve(r)

Spec == Init /\ [][Next]_vars

\* Inputs of the pipeline specification: posts are created and time passes,
\* one scheduler invocation runs at a time, posts name an existing or a
\* missing account, and an attempt meets any of the environments.
PipelineBodies ==
    {d \in Bodies : d.present = RequiredFields /\ d.scheduled_time[2] = ""}

PipelineRuns == {r \in Runs : \A q \in Runs : r <= q}

PipelineNext ==
    \/ Tick
    \/ \E data \in PipelineBodies : create_post(data)
    \/ \E r \in PipelineRuns : check_scheduled_posts_query(r)
    \/ \E r \in PipelineRuns : check_scheduled_posts_claim(r)
    \/ \E r \in PipelineRuns, env \in Envs : check_scheduled_posts_publish(r, env)
    \/ \E r \in PipelineRuns : check_scheduled_posts_resolve(r)

PipelineSpec == Init /\ [][PipelineNext]_vars

\* The intake specification: the two HTTP handlers that write the posts
\* collection meet every request body, and time passes; no scheduler runs.
IntakeNext ==
    \/ Tick
    \/ \E data \in Bodies : create_post(data)
    \/ \E data \in RetryBodies : retry_failed_post(data)

IntakeSpec == Init /\ [][IntakeNext]_vars

\* The backlog specification: the scheduler meets a collection that holds
\* more due posts than one query returns. The collection starts with
\* BatchLimit pending posts due at 0, one failed post and one pending post
\* scheduled for MaxTime: the state reached from the empty collection by that
\* many create_post calls and one attempt whose login was rejected. The
\* failed post can be retried, time passes, one scheduler invocation runs at a
\* time and attempts succeed.
RetriedId == BatchLimit + 1
LaterId   == BatchLimit + 2

BacklogPosts ==
    [id \in 1..LaterId |->
        IF id = RetriedId
        THEN [NewPost([account_id |-> "acc"], 0) EXCEPT
                 !.status = "failed", !.processing_started_at = 0, !.failed_at = 0,
                 !.error = "Login error: Login failed - still on login page"]
        ELSE NewPost([account_id |-> "acc"], IF id = LaterId THEN MaxTime ELSE 0)]

BacklogInit ==
    /\ posts = BacklogPosts
    /\ now = 0
    /\ pc = [r \in Runs |-> "idle"]
    /\ batch = [r \in Runs |-> <<>>]
    /\ count = [r \in Runs |-> 0]
    /\ attempt = [r \in Runs |-> NoAttempt]
    /\ writer = [id \in 1..LaterId |-> IF id = RetriedId THEN "resolve" ELSE "create"]
    /\ response = NoResponse

BacklogRetryBodies == {[present |-> {"post_id"}, post_id |-> RetriedId]}

BacklogNext ==
    \/ Tick
    \/ \E data \in BacklogRetryBodies : retry_failed_post(data)
    \/ \E r \in PipelineRuns : check_scheduled_posts_query(r)
    \/ \E r \in PipelineRuns : check_scheduled_posts_claim(r)
    \/ \E r \in PipelineRuns : check_scheduled_posts_publish(r, DefaultEnv)
    \/ \E r \in PipelineRuns : check_scheduled_posts_resolve(r)

BacklogSpec == BacklogInit /\ [][BacklogNext]_vars

\* ------------------------------------------------------ lifecycle claims
ExistingIds == {id \in DocIds : Exists(id)}

\* steps of scheduler invocation r, recognised by its position
ClaimStep(r)   == pc[r] = "claim" /\ pc'[r] = "publishing"
ResolveStep(r) == pc[r] = "resolve" /\ pc'[r] # "resolve"
ReturnStep(r)  == pc[r] = "resolve" /\ pc'[r] = "idle"
BatchIds(r)    == Range(batch[r])

\* C1: no post has both published_at and failed_at set.
C1_NeverBothTimestamps ==
    \A id \in ExistingIds :
        ~(IsSet(posts[id].published_at) /\ IsSet(posts[id].failed_at))

\* C2: a post's status is consistent with its timestamps: published_at is set
\* only while the status is published, failed_at only while it is failed, and
\* a pending or processing post has neither.
C2_StatusMatchesTimestamps ==
    \A id \in ExistingIds :
        /\ IsSet(posts[id].published_at) => posts[id].status = "published"
        /\ IsSet(posts[id].failed_at) => posts[id].status = "failed"
        /\ posts[id].status \in {"pending", "processing"} =>
               ~IsSet(posts[id].published_at) /\ ~IsSet(posts[id].failed_at)

\* C3: at most one publish_to_xfree call per post is running at any moment.
InFlight(r, id) == pc[r] = "publishing" /\ Current(r) = id

C3_OneAttemptInFlight ==
    \A id \in PostIds : \A r1, r2 \in Runs :
        InFlight(r1, id) /\ InFlight(r2, id) => r1 = r2

\* C4 as stated: when a scheduler invocation returns, no post of its batch is
\* pending.  It is stated for the posts of the batch that were never
\* published, so that no retry of a published post is needed to refute it.
C4_NoBatchPostPendingAtReturn ==
    [][\A r \in Runs : ReturnStep(r) =>
          \A id \in BatchIds(r) :
              ~IsSet(posts'[id].published_at) => posts'[id].status # "pending"]_vars

\* C4 as amended: an invocation claims the posts of its batch one after the
\* other, each claim writes processing, each claim is followed by a
\* resolution that writes published or failed, and the invocation returns
\* only after the last post of the batch; a post of the batch that is pending
\* when the invocation returns was reset by retry_failed_post after the
\* invocation claimed it.
C4_BatchClaimedAndResolved ==
    [][\A r \in Runs :
          /\ ClaimStep(r) =>
                /\ count'[r] = count[r] + 1
                /\ posts'[batch[r][count'[r]]].status = "processing"
          /\ ResolveStep(r) => posts'[Current(r)].status \in {"published", "failed"}
          /\ pc[r] = "claim" => pc'[r] \in {"claim", "publishing"}
          /\ pc[r] = "publishing" => pc'[r] \in {"publishing", "resolve"}
          /\ pc[r] = "resolve" => pc'[r] \in {"resolve", "claim", "idle"}
          /\ pc[r] = "resolve" /\ pc'[r] = "claim" => count[r] < Len(batch[r])
          /\ ReturnStep(r) =>
                /\ count[r] = Len(batch[r])
                /\ \A id \in BatchIds(r) :
                      posts'[id].status = "pending" => writer'[id] = "retry"]_vars

\* a run about to return from a batch of two whose first post was reset by a
\* retry in the meantime
C4_Witness ==
    \E r \in Runs :
        /\ pc[r] = "resolve"
        /\ Len(batch[r]) = 2 /\ count[r] = 2
        /\ posts[batch[r][1]].status = "pending"
        /\ writer[batch[r][1]] = "retry"

\* C5: the only changes of a post's status are pending -> processing,
\* processing -> published, processing -> failed, failed -> pending and
\* processing -> pending.
AllowedTransitions ==
    {<<"pending", "processing">>, <<"processing", "published">>,
     <<"processing", "failed">>, <<"failed", "pending">>, <<"processing", "pending">>}

C5_OnlyAllowedTransitions ==
    [][\A id \in ExistingIds :
          posts'[id].status # posts[id].status =>
              <<posts[id].status, posts'[id].status>> \in AllowedTransitions]_vars

\* C6: retry_failed_post on an existing post whose status is failed answers
\* 200 and leaves the post pending, with error null and scheduled_time at or
\* before the current time: the post is due.
C6_RetryMakesFailedPostDue ==
    [][\A data \in LifecycleRetryBodies :
          (Exists(data.post_id) /\ posts[data.post_id].status = "failed"
              /\ retry_failed_post(data)) =>
                /\ response'.code = 200
                /\ posts'[data.post_id].status = "pending"
                /\ posts'[data.post_id].error = Null
                /\ posts'[data.post_id].scheduled_time <= now'
                /\ Due(data.post_id, now)']_vars

\* a post that failed, now pending and due again after a successful retry
C6_Witness ==
    /\ response = [op |-> "retry_failed_post", code |-> 200]
    /\ \E id \in ExistingIds :
          /\ writer[id] = "retry"
          /\ IsSet(posts[id].failed_at)
          /\ posts[id].error = Null
          /\ Due(id, now)

\* C7: retry_failed_post with an id no document has answers 404 and leaves
\* the collection as it was: no document is created, none is modified.
C7_RetryOfMissingPostChangesNothing ==
    [][\A data \in LifecycleRetryBodies :
          (~Exists(data.post_id) /\ retry_failed_post(data)) =>
                /\ response'.code = 404
                /\ posts' = posts]_vars

\* a 404 was answered while the collection holds a post
C7_Witness ==
    /\ response = [op |-> "retry_failed_post", code |-> 404]
    /\ ExistingIds # {}
    /\ ExistingIds # PostIds

\* ------------------------------------------------------- pipeline claims
\* C8: an exception of the pipeline for one post of the batch, whatever the
\* stage that raised it, does not end the invocation: the post is stored as
\* failed, the loop goes on with the next post of the batch, and when the
\* invocation returns every post of the batch was claimed and is published or
\* failed.
C8_FailureDoesNotAbortBatch ==
    [][\A r \in PipelineRuns :
          /\ (ResolveStep(r) /\ attempt[r].exc # Null) =>
                /\ posts'[Current(r)].status = "failed"
                /\ count[r] < Len(batch[r]) =>
                      pc'[r] = "claim" /\ batch'[r] = batch[r] /\ count'[r] = count[r]
          /\ ReturnStep(r) =>
                /\ count[r] = Len(batch[r])
                /\ \A id \in BatchIds(r) : posts'[id].status \in {"published", "failed"}]_vars

\* the second post of a batch has been attempted after the first one failed
C8_Witness ==
    \E r \in PipelineRuns :
        /\ pc[r] = "resolve"
        /\ Len(batch[r]) = 2 /\ count[r] = 2
        /\ posts[batch[r][1]].status = "failed"
        /\ attempt[r].exc = Null

\* C9: the resolution matches the outcome of the publish_to_xfree call: a
\* normal return stores published, published_at and error null; an exception
\* stores failed, failed_at and the text of the exception.
C9_ResolutionMatchesOutcome ==
    [][\A r \in PipelineRuns : ResolveStep(r) =>
          LET doc == posts'[Current(r)]
          IN  IF attempt[r].exc = Null
              THEN /\ doc.status = "published"
                   /\ doc.published_at = now
                   /\ doc.error = Null
                   /\ doc.failed_at = posts[Current(r)].failed_at
              ELSE /\ doc.status = "failed"
                   /\ doc.failed_at = now
                   /\ doc.error = attempt[r].exc
                   /\ doc.published_at = posts[Current(r)].published_at]_vars

\* one post stored as published, another as failed with the text of a
\* timeout of the submit stage
C9_Witness ==
    \E a, b \in ExistingIds :
        /\ posts[a].status = "published" /\ posts[a].error = Null
        /\ IsSet(posts[a].published_at)
        /\ posts[b].status = "failed" /\ IsSet(posts[b].failed_at)
        /\ posts[b].error = "Publish timeout: Timeout exceeded: submit.click"

\* C10: when a publication attempt that created a temporary video file has
\* exited, the file no longer exists.
C10_TempFileGoneAtExit ==
    \A r \in Runs :
        (attempt[r].state = "exited" /\ attempt[r].tmp_created) => ~attempt[r].tmp_exists

\* ---------------------------------------------------------- intake claims
\* C11: create_post stores a post only when the body carries all five
\* required fields, and the post it stores is pending with published_at and
\* error unset; when a required field is absent the request is answered with
\* the validation error (400) and the posts collection is unchanged.
C11_CreateValidatesRequiredFields ==
    [][\A data \in Bodies : create_post(data) =>
          /\ (data.present # RequiredFields) =>
                 (response'.code = 400 /\ posts' = posts)
          /\ (posts' # posts) =>
                 /\ data.present = RequiredFields
                 /\ \E id \in PostIds :
                        /\ ~Exists(id)
                        /\ posts'[id].status = "pending"
                        /\ posts'[id].published_at = NoTime
                        /\ posts'[id].error = Null
                        /\ \A other \in PostIds \ {id} : posts'[other] = posts[other]]_vars

\* C19: create_post with all required fields present and a scheduled_time
\* that cannot be parsed answers with a client error (4xx), not a server
\* error, and stores no post.
C19_MalformedTimeIsClientError ==
    [][\A data \in ObjectBodies :
          (/\ create_post(data)
           /\ data.present = RequiredFields
           /\ ~fromisoformat(ReplaceZ(data.scheduled_time)).ok) =>
              /\ response'.code \in 400..499
              /\ posts' = posts]_vars

\* ---------------------------------------------------------- backlog claims
QueryStep(r) == pc[r] = "idle" /\ pc'[r] = "claim"
RunStep(r) ==
    <<pc[r], batch[r], count[r], attempt[r]>>' # <<pc[r], batch[r], count[r], attempt[r]>>
RetryOk(id) ==
    /\ response' = [op |-> "retry_failed_post", code |-> 200]
    /\ writer[id] # "retry" \/ posts[id] # posts'[id]
    /\ writer'[id] = "retry"
    /\ \A r \in Runs : ~RunStep(r)

C13_RunClaimsOnlyDueBatch ==
    [][\A r \in Runs :
          /\ QueryStep(r) =>
                /\ Len(batch'[r]) <= BatchLimit
                /\ \A k \in 1..Len(batch'[r]) :
                       /\ posts[batch'[r][k]].status = "pending"
                       /\ posts[batch'[r][k]].scheduled_time <= now
                       /\ \A j \in 1..Len(batch'[r]) : j # k => batch'[r][j] # batch'[r][k]
                /\ posts' = posts
          /\ ClaimStep(r) =>
                /\ count'[r] <= BatchLimit
                /\ batch[r][count'[r]] \in BatchIds(r)
                /\ posts'[batch[r][count'[r]]].status = "processing"
          /\ RunStep(r) =>
                \A id \in DocIds \ (BatchIds(r) \cup Range(batch'[r])) :
                    posts'[id] = posts[id]]_vars

\* an invocation has claimed BatchLimit posts while the failed post and the
\* post scheduled for later are as they were
C13_Witness ==
    \E r \in Runs :
        /\ Len(batch[r]) = BatchLimit
        /\ count[r] = BatchLimit
        /\ now < MaxTime
        /\ posts[RetriedId] = BacklogPosts[RetriedId]
        /\ posts[LaterId] = BacklogPosts[LaterId]

\* --------------------------------------------------------- pipeline claims
\* the browser session of an attempt is still open
SessionOpen(out) == out.launched /\ ~out.closed /\ ~out.stopped

Launches(out) == Cardinality({i \in 1..Len(out.trace) : out.trace[i] = "chromium.launch"})

\* C14: when a publication attempt has exited, the browser session it opened
\* is no longer open, whatever operation failed, a failure of
\* browser.new_context or context.new_page after the launch included; and an
\* attempt launches at most one browser.
C14_SessionClosedAtExit ==
    \A r \in Runs :
        attempt[r].state = "exited" =>
            /\ ~SessionOpen(attempt[r])
            /\ Launches(attempt[r]) <= 1
            /\ attempt[r].launched => Launches(attempt[r]) = 1

\* an attempt has exited after new_context or new_page failed on a launched
\* browser
C14_Witness ==
    \E r \in Runs :
        /\ attempt[r].state = "exited"
        /\ attempt[r].launched
        /\ attempt[r].exc \in {"Error: browser.new_context", "Error: context.new_page"}
        /\ "login.goto" \notin Range(attempt[r].trace)

\* the stage an operation of the page belongs to: 1 login, 2 upload,
\* 3 metadata fill, 4 processing wait, 5 submit; 0 for any other operation
LoginStage  == Range(LoginOps)
UploadStage == Range(UploadOps)
FillStage   == {"fill.title", "fill.description"}
WaitStage   == {"processing.sleep"}
SubmitStage == Range(SubmitOps) \ WaitStage
StageOps    == LoginStage \cup UploadStage \cup FillStage \cup WaitStage \cup SubmitStage

Rank(op) ==
    IF op \in LoginStage THEN 1
    ELSE IF op \in UploadStage THEN 2
    ELSE IF op \in FillStage THEN 3
    ELSE IF op \in WaitStage THEN 4
    ELSE IF op \in SubmitStage THEN 5
    ELSE 0

IsStageOp(op) == Rank(op) > 0
StageTrace(out) == SelectSeq(out.trace, IsStageOp)

\* the stage operations the page of env calls for: a metadata field is
\* filled only when its selector matches
Applicable(env) ==
    {op \in StageOps :
        /\ op = "fill.title" => env.title_count > 0
        /\ op = "fill.description" => env.desc_count > 0}

\* C15: in one attempt the stage operations run in the order login, upload,
\* metadata fill, processing wait, submit; none runs twice; an operation that
\* fails, or a login the page rejects, is the last stage operation of the
\* attempt; and a stage is reached only when every operation of the earlier
\* stages ran without failing.
C15_StagesInOrderAbortOnFailure ==
    \A r \in Runs :
        attempt[r].state = "exited" =>
            LET t == StageTrace(attempt[r])
                env == attempt[r].env
            IN  /\ \A i, j \in 1..Len(t) : i < j => Rank(t[i]) <= Rank(t[j]) /\ t[i] # t[j]
                /\ \A i \in 1..Len(t) : Fails(t[i], env) => i = Len(t)
                /\ \A i \in 1..Len(t) :
                       (env.url_login /\ t[i] = "login.check_url") => i = Len(t)
                /\ Len(t) > 0 =>
                       /\ \A op \in Applicable(env) :
                              Rank(op) < Rank(t[Len(t)]) => op \in Range(t) /\ ~Fails(op, env)
                       /\ Rank(t[Len(t)]) > 1 => ~env.url_login
                /\ (Len(t) > 0 /\ attempt[r].exc = Null) => Range(t) = Applicable(env)

\* an attempt has exited after the upload stage timed out waiting for the
\* file input: login and the start of upload ran, nothing after it
C15_Witness ==
    \E r \in Runs :
        /\ attempt[r].state = "exited"
        /\ attempt[r].exc = "Publish timeout: Timeout exceeded: upload.wait_for_selector"
        /\ "login.check_url" \in Range(attempt[r].trace)
        /\ "upload.goto" \in Range(attempt[r].trace)
        /\ "upload.set_input_files" \notin Range(attempt[r].trace)
        /\ "submit.click" \notin Range(attempt[r].trace)

\* the attempt of r submitted the login form without an error and found
\* page.url still on the login page
LoginRejected(r) ==
    /\ attempt[r].state = "exited"
    /\ attempt[r].env.url_login
    /\ "login.check_url" \in Range(attempt[r].trace)

\* C16: when page.url still names the login page after a login submit that
\* itself went through, the login stage raises the login error, no operation
\* of the upload stage (or of a later stage) runs, the attempt raises, and the
\* post is resolved to failed with the text of the exception.
C16_RejectedLoginFailsPost ==
    [][\A r \in Runs : LoginRejected(r) =>
          /\ "login.click" \in Range(attempt[r].trace)
          /\ "login.wait_for_load_state" \in Range(attempt[r].trace)
          /\ login_to_xfree(attempt[r].env).exc
                 = "Login error: Login failed - still on login page"
          /\ \A i \in 1..Len(attempt[r].trace) : Rank(attempt[r].trace[i]) <= 1
          /\ attempt[r].exc # Null
          /\ ~attempt[r].env.close_fails =>
                 attempt[r].exc = "Login error: Login failed - still on login page"
          /\ ResolveStep(r) =>
                 /\ posts'[Current(r)].status = "failed"
                 /\ posts'[Current(r)].error = attempt[r].exc]_vars

\* a post stored as failed with the error of the rejected login
C16_Witness ==
    \E id \in ExistingIds :
        /\ posts[id].status = "failed"
        /\ posts[id].error = "Login error: Login failed - still on login page"
        /\ writer[id] = "resolve"

\* the attempt of r met a page on which everything works and the title input
\* or the description textarea matches no element
FieldAbsentOnly(r) ==
    /\ attempt[r].state = "exited"
    /\ "upload.settle" \in Range(attempt[r].trace)
    /\ attempt[r].env.fault = NoFault
    /\ ~attempt[r].env.close_fails
    /\ attempt[r].env.title_count = 0 \/ attempt[r].env.desc_count = 0

\* C17: when the title input or the description textarea matches no element
\* and nothing else goes wrong, the field is not filled, the attempt goes on
\* to the processing wait and the submit and returns normally, and the post
\* is resolved to published, not failed.
C17_AbsentFieldIsSkipped ==
    [][\A r \in Runs : FieldAbsentOnly(r) =>
          /\ attempt[r].env.title_count = 0 => "fill.title" \notin Range(attempt[r].trace)
          /\ attempt[r].env.desc_count = 0 => "fill.description" \notin Range(attempt[r].trace)
          /\ attempt[r].env.title_count > 0 => "fill.title" \in Range(attempt[r].trace)
          /\ attempt[r].env.desc_count > 0 => "fill.description" \in Range(attempt[r].trace)
          /\ SubmitStage \subseteq Range(attempt[r].trace)
          /\ attempt[r].exc = Null
          /\ ResolveStep(r) =>
                 /\ posts'[Current(r)].status = "published"
                 /\ posts'[Current(r)].error = Null]_vars

\* an attempt has returned normally after submitting without a title: the
\* description was filled, the title was not
C17_Witness ==
    \E r \in Runs :
        /\ FieldAbsentOnly(r)
        /\ attempt[r].env.title_count = 0
        /\ attempt[r].env.desc_count > 0
        /\ attempt[r].exc = Null
        /\ "fill.description" \in Range(attempt[r].trace)
        /\ "submit.click" \in Range(attempt[r].trace)

\* the stage whose failure ends an attempt in environment env (0: none)
FailedStage(env) ==
    IF env.fault \in StageOps THEN Rank(env.fault)
    ELSE IF env.fault = NoFault /\ env.url_login THEN 1
    ELSE 0

\* the error texts publish_to_xfree raises when stage k fails and
\* browser.close() works, and the texts it raises for a timeout and for
\* another failure of a page operation
StageErrors ==
    [k \in 1..5 |->
        {publish_to_xfree([account_id |-> "acc"], e).exc :
            e \in {e \in Envs : FailedStage(e) = k /\ ~e.close_fails}}]

KindErrors ==
    [kind \in {"timeout", "error"} |->
        {publish_to_xfree([account_id |-> "acc"], e).exc :
            e \in {e \in Envs : e.fault \in PageOps /\ e.kind = kind /\ ~e.close_fails}}]

\* C18: the error stored for a failed post tells which stage failed: the text
\* stored after a failure of one stage is never a text that a failure of
\* another stage stores (the text of an upload failure differs from that of
\* a submit failure); and the text stored after a timeout is never one that
\* another kind of failure stores.
C18_ErrorIdentifiesStage ==
    [][\A r \in Runs :
          (/\ ResolveStep(r)
           /\ FailedStage(attempt[r].env) > 0
           /\ ~attempt[r].env.close_fails) =>
              /\ posts'[Current(r)].status = "failed"
              /\ \A k \in 1..5 :
                     k # FailedStage(attempt[r].env) =>
                         posts'[Current(r)].error \notin StageErrors[k]
              /\ (attempt[r].env.fault \in PageOps /\ attempt[r].env.kind = "timeout") =>
                     posts'[Current(r)].error \notin KindErrors["error"]]_vars

\* the attempt of r was for a post whose account_id names no document of the
\* accounts collection
AccountMissing(r) ==
    /\ attempt[r].state = "exited"
    /\ posts[Current(r)].account_id \notin Accounts

\* C20: an attempt for a post whose account does not exist does nothing but
\* the account lookup: no temporary file is created, no browser is launched,
\* no stage operation runs; it raises an error that names the account, and
\* the post is resolved to failed with that error.
C20_MissingAccountFailsBeforeResources ==
    [][\A r \in Runs : AccountMissing(r) =>
          /\ attempt[r].trace = <<"accounts.get">>
          /\ ~attempt[r].tmp_created /\ ~attempt[r].tmp_exists
          /\ ~attempt[r].launched
          /\ \A i \in 1..Len(attempt[r].trace) :
                 Rank(attempt[r].trace[i]) = 0
                 /\ attempt[r].trace[i] \notin Range(DownloadOps) \cup Range(BrowserOps)
          /\ attempt[r].exc = "Account " \o posts[Current(r)].account_id \o " not found"
          /\ ResolveStep(r) =>
                 /\ posts'[Current(r)].status = "failed"
                 /\ posts'[Current(r)].error
                        = "Account " \o posts[Current(r)].account_id \o " not found"]_vars

\* a post of the missing account stored as failed with the error naming it
C20_Witness ==
    \E id \in ExistingIds :
        /\ posts[id].account_id = "ghost"
        /\ posts[id].status = "failed"
        /\ posts[id].error = "Account ghost not found"
        /\ posts[id].failed_at = now
====
